---- MODULE Spec2Model ----
(***************************************************************************)
(* Verification model of msdsl: the case-substitution helpers of           *)
(* msdsl/eqn/cases.py and the MixedSignalModel of msdsl/model.py.          *)
(***************************************************************************)
EXTENDS Integers, Sequences, FiniteSets, TLC

VARIABLES
    fn, arg, ret,       \* a call of one of the functions of cases.py: name, arguments, result
    signals,            \* MixedSignalModel.signals: OrderedDict name -> Signal, as a sequence
    namer,              \* MixedSignalModel.namer: the names taken
    assignments,        \* MixedSignalModel.assignments: OrderedDict name -> assignment, as a sequence
    probes,             \* MixedSignalModel.probes
    last,               \* the last call on the model and the exception it raised
    io,                 \* what the last get_equation_io, add_eqn_sys, add_discrete_time_lds or make_history call was given and returned
    pc, cur,            \* position of compile_model
    gen_calls           \* the calls compile_model has made on the code generator

caseVars == <<fn, arg, ret>>
modelVars == <<signals, namer, assignments, probes, last, io, pc, cur, gen_calls>>
vars == <<fn, arg, ret, signals, namer, assignments, probes, last, io, pc, cur, gen_calls>>

(* ---------------- bounds ---------------- *)
MaxSel == 3
MaxDepth == 2
MaxCases == 4
MaxSignals == 2
MaxAssign == 2
MaxProbes == 1
MaxRows == 1
MaxHist == 3

(* ---------------- generic helpers ---------------- *)
RECURSIVE Pow2(_)
Pow2(n) == IF n = 0 THEN 1 ELSE 2 * Pow2(n - 1)

SeqsUpTo(S, n) == UNION {[1..k -> S] : k \in 0..n}

Reverse(s) == [i \in 1..Len(s) |-> s[Len(s) + 1 - i]]

Distinct(s) == \A i, j \in 1..Len(s) : i # j => s[i] # s[j]

(* Python dict item assignment d[k] = v *)
DictSet(d, k, v) == [n \in DOMAIN d \cup {k} |-> IF n = k THEN v ELSE d[n]]

EmptyDict == [n \in {} |-> 0]

(* ---------------- signals and expressions ---------------- *)
DigitalSignal(n) == [name |-> n, cls |-> "DigitalSignal", fmt |-> "UIntFormat", width |-> 1]

Constant(v) == [kind |-> "Constant", value |-> v]
SignalRef(n) == [kind |-> "Signal", name |-> n]
Sum(ops) == [kind |-> "Sum", operands |-> ops]
Product(ops) == [kind |-> "Product", operands |-> ops]
EqualTo(l, r) == [kind |-> "EqualTo", lhs |-> l, rhs |-> r]
Deriv(e) == [kind |-> "Deriv", arg |-> e]
EqnCase(cs, sb) == [kind |-> "EqnCase", cases |-> cs, sel_bits |-> sb]

sum_op(ops) == Sum(ops)
prod_op(ops) == Product(ops)

(* ---------------- call results ---------------- *)
Ok(v) == [error |-> "none", value |-> v]
Raise(e) == [error |-> e, value |-> 0]
Pending == [error |-> "pending", value |-> 0]

(* ---------------- cases.py ---------------- *)
RECURSIVE get_address_loop(_, _, _, _)
get_address_loop(sel_bits, i, addr, sel_bit_settings) ==
    IF i > Len(sel_bits) THEN addr
    ELSE get_address_loop(sel_bits, i + 1,
            (addr * 2) + (IF sel_bit_settings[sel_bits[i].name] # 0 THEN 1 ELSE 0),
            sel_bit_settings)

(* get_address without the shift of line 78 *)
RECURSIVE get_address_unshifted_loop(_, _, _, _)
get_address_unshifted_loop(sel_bits, i, addr, sel_bit_settings) ==
    IF i > Len(sel_bits) THEN addr
    ELSE get_address_unshifted_loop(sel_bits, i + 1,
            IF addr = 1 \/ sel_bit_settings[sel_bits[i].name] # 0 THEN 1 ELSE 0,
            sel_bit_settings)

get_address_unshifted(case, sel_bit_settings) ==
    get_address_unshifted_loop(case.sel_bits, 1, 0, sel_bit_settings)

get_address(case, sel_bit_settings) == get_address_loop(case.sel_bits, 1, 0, sel_bit_settings)

get_case(case, sel_bit_settings) == case.cases[get_address(case, sel_bit_settings) + 1]

(* subst_case without the second substitution of the selected case (line 15) *)
RECURSIVE subst_case_once(_, _)
subst_case_once(expr, sel_bit_settings) ==
    IF expr.kind = "EqnCase"
    THEN get_case(expr, sel_bit_settings)
    ELSE IF expr.kind = "EqualTo"
    THEN EqualTo(subst_case_once(expr.lhs, sel_bit_settings), subst_case_once(expr.rhs, sel_bit_settings))
    ELSE IF expr.kind = "Sum"
    THEN sum_op([i \in 1..Len(expr.operands) |-> subst_case_once(expr.operands[i], sel_bit_settings)])
    ELSE IF expr.kind = "Product"
    THEN prod_op([i \in 1..Len(expr.operands) |-> subst_case_once(expr.operands[i], sel_bit_settings)])
    ELSE expr

RECURSIVE subst_case(_, _)
subst_case(expr, sel_bit_settings) ==
    IF expr.kind = "EqnCase"
    THEN subst_case(get_case(expr, sel_bit_settings), sel_bit_settings)
    ELSE IF expr.kind = "EqualTo"
    THEN EqualTo(subst_case(expr.lhs, sel_bit_settings), subst_case(expr.rhs, sel_bit_settings))
    ELSE IF expr.kind = "Sum"
    THEN sum_op([i \in 1..Len(expr.operands) |-> subst_case(expr.operands[i], sel_bit_settings)])
    ELSE IF expr.kind = "Product"
    THEN prod_op([i \in 1..Len(expr.operands) |-> subst_case(expr.operands[i], sel_bit_settings)])
    ELSE expr

RECURSIVE settings_loop(_, _, _, _)
settings_loop(address, rev, idx, d) ==
    IF idx >= Len(rev) THEN d
    ELSE settings_loop(address, rev, idx + 1,
            DictSet(d, rev[idx + 1].name, (address \div Pow2(idx)) % 2))

(* address_to_settings walking sel_bits in declared order instead of reversed (line 35) *)
address_to_settings_forward(address, sel_bits) ==
    IF ~(0 <= address /\ address <= Pow2(Len(sel_bits)) - 1)
    THEN Raise("AssertionError")
    ELSE Ok(settings_loop(address, sel_bits, 0, EmptyDict))

address_to_settings(address, sel_bits) ==
    IF ~(0 <= address /\ address <= Pow2(Len(sel_bits)) - 1)
    THEN Raise("AssertionError")
    ELSE Ok(settings_loop(address, Reverse(sel_bits), 0, EmptyDict))

wrap_constants(cases) == [i \in 1..Len(cases) |-> Constant(cases[i])]

is_sel_bit(sel_bit) ==
    sel_bit.cls = "DigitalSignal" /\ sel_bit.fmt = "UIntFormat" /\ sel_bit.width = 1

(* eqn_case without the table-length assertion (line 49) *)
eqn_case_unchecked_length(cases, sel_bits) ==
    LET wrapped == wrap_constants(cases) IN
    IF ~(\A i \in 1..Len(sel_bits) : is_sel_bit(sel_bits[i]))
    THEN Raise("AssertionError")
    ELSE IF Len(wrapped) = 0
    THEN Raise("ValueError")
    ELSE IF Len(wrapped) = 1
    THEN Ok(wrapped[1])
    ELSE Ok(EqnCase(wrapped, sel_bits))

eqn_case(cases, sel_bits) ==
    LET wrapped == wrap_constants(cases) IN
    IF ~(\A i \in 1..Len(sel_bits) : is_sel_bit(sel_bits[i]))
    THEN Raise("AssertionError")
    ELSE IF Len(wrapped) # Pow2(Len(sel_bits))
    THEN Raise("AssertionError")
    ELSE IF Len(wrapped) = 0
    THEN Raise("ValueError")
    ELSE IF Len(wrapped) = 1
    THEN Ok(wrapped[1])
    ELSE Ok(EqnCase(wrapped, sel_bits))

(* ---------------- model.py: the catalog and the assignments ---------------- *)
NoCall == [op |-> "none", name |-> "", error |-> "none"]
NoIo == [called |-> FALSE, op |-> "none", error |-> "none"]
Names == {"x", "name"}
SignalClasses == {"AnalogInput", "DigitalInput", "AnalogState"}
IoClasses == {"AnalogInput", "AnalogOutput", "DigitalInput", "DigitalOutput"}
AssignExprs == {SignalRef("x")}

Signal(n, c) == [name |-> n, cls |-> c]
Assignment(n, k, e) == [name |-> n, kind |-> k, expr |-> e]

(* OrderedDict operations on a sequence of records keyed by their name *)
Keys(d) == {d[i].name : i \in 1..Len(d)}
Get(d, k) == d[CHOOSE i \in 1..Len(d) : d[i].name = k]
OdSet(d, v) ==
    IF v.name \in Keys(d)
    THEN [i \in 1..Len(d) |-> IF d[i].name = v.name THEN v ELSE d[i]]
    ELSE Append(d, v)

Model == [signals |-> signals, namer |-> namer, assignments |-> assignments]
Done(m, e) == [m |-> m, error |-> e]

has_signal(m, n) == n \in Keys(m.signals)
has_assignment(m, n) == n \in Keys(m.assignments)
get_assignment(m, n) == Get(m.assignments, n)

add_name(taken, n) == IF n \in taken THEN Raise("Exception") ELSE Ok(taken \cup {n})

add_signal(m, signal) ==
    LET r == add_name(m.namer, signal.name) IN
    IF r.error # "none" THEN Done(m, r.error)
    ELSE Done([m EXCEPT !.namer = r.value, !.signals = OdSet(@, signal)], "none")

(* add_assignment without the assertion of line 97: the dict entry is overwritten *)
add_assignment_unchecked(m, assignment) ==
    Done([m EXCEPT !.assignments = OdSet(@, assignment)], "none")

add_assignment(m, assignment) ==
    IF assignment.name \in Keys(m.assignments)
    THEN Done(m, "AssertionError")
    ELSE Done([m EXCEPT !.assignments = OdSet(@, assignment)], "none")

set_this_cycle(m, n, e) == add_assignment(m, Assignment(n, "ThisCycleAssignment", e))

set_next_cycle(m, n, e) == add_assignment(m, Assignment(n, "NextCycleAssignment", e))

bind_name(m, n, e) ==
    LET r == add_signal(m, Signal(n, "Signal")) IN
    IF r.error # "none" THEN r
    ELSE add_assignment(r.m, Assignment(n, "BindingAssignment", e))

InBounds(m) == Len(m.signals) <= MaxSignals /\ Len(m.assignments) <= MaxAssign

Called(op, n, r) ==
    /\ pc = "idle"
    /\ InBounds(r.m)
    /\ signals' = r.m.signals
    /\ namer' = r.m.namer
    /\ assignments' = r.m.assignments
    /\ last' = [op |-> op, name |-> n, error |-> r.error]
    /\ io' = NoIo
    /\ UNCHANGED <<probes, pc, cur, gen_calls>>
    /\ UNCHANGED caseVars

AddSignal == \E n \in Names, c \in SignalClasses : Called("add_signal", n, add_signal(Model, Signal(n, c)))

SetThisCycle == \E n \in Names, e \in AssignExprs : Called("set_this_cycle", n, set_this_cycle(Model, n, e))

SetNextCycle == \E n \in Names, e \in AssignExprs : Called("set_next_cycle", n, set_next_cycle(Model, n, e))

BindName == \E n \in Names, e \in AssignExprs : Called("bind_name", n, bind_name(Model, n, e))

(* add_assignment is public: an assignment object of none of the three kinds *)
AddAssignment ==
    \E n \in Names : Called("add_assignment", n, add_assignment(Model, Assignment(n, "Assignment", Constant(1))))

AddProbe ==
    \E n \in Names :
        /\ pc = "idle"
        /\ Len(probes) < MaxProbes
        /\ probes' = Append(probes, n)
        /\ last' = [op |-> "add_probe", name |-> n, error |-> "none"]
        /\ io' = NoIo
        /\ UNCHANGED <<signals, namer, assignments, pc, cur, gen_calls>>
        /\ UNCHANGED caseVars

(* ---------------- model.py: the equation system analysis ---------------- *)
(* An EqnSys, as what its accessors return: the names of get_all_signals,  *)
(* get_states, get_derivs and get_sel_bits.                                *)
EqnSys(a, st, d, sb) == [all_signals |-> a, states |-> st, derivs |-> d, sel_bits |-> sb]

EqnNames == {"x", "y"}

(* the systems analysed: every one references x and y; at most one of them *)
(* is a state (then its derivative dz is referenced too) and at most one a *)
(* selector bit                                                           *)
EqnSystems ==
    {EqnSys(EqnNames \cup (IF st = {} THEN {} ELSE {"dz"}), st, IF st = {} THEN {} ELSE {"dz"}, sb) :
        <<st, sb>> \in {<<st, sb>> \in (SUBSET EqnNames) \X (SUBSET EqnNames) :
            /\ sb \cap st = {}
            /\ Cardinality(st) <= 1 /\ Cardinality(sb) <= 1}}

get_signal(m, n) == IF has_signal(m, n) THEN Ok(Get(m.signals, n)) ELSE Raise("AssertionError")

(* get_signals: the first failing get_signal raises *)
(* get_signals skipping the names that are not declared instead of raising *)
get_signals_lenient(m, names) == Ok(names \cap Keys(m.signals))

get_signals(m, names) ==
    IF \A n \in names : has_signal(m, n) THEN Ok(names) ELSE Raise("AssertionError")

getattr(m, item) == get_signal(m, item)

(* get_analog_inputs returning the digital inputs as well *)
get_all_inputs(m) ==
    {m.signals[i].name : i \in {j \in 1..Len(m.signals) : m.signals[j].cls \in {"AnalogInput", "DigitalInput"}}}

get_analog_inputs(m) == {m.signals[i].name : i \in {j \in 1..Len(m.signals) : m.signals[j].cls = "AnalogInput"}}

IoResult(op, eqn_sys, e, ins, sts, outs, sbs) ==
    [called |-> TRUE, op |-> op, eqn_sys |-> eqn_sys, error |-> e,
     inputs |-> ins, states |-> sts, outputs |-> outs, sel_bits |-> sbs, collection |-> << >>]

get_equation_io(m, eqn_sys) ==
    LET all_signal_names == eqn_sys.all_signals
        input_names == (get_analog_inputs(m) \cup Keys(m.assignments)) \cap all_signal_names
        state_names == eqn_sys.states
        deriv_names == eqn_sys.derivs
        output_names == (((all_signal_names \ input_names) \ state_names) \ deriv_names) \cap Keys(m.signals)
        sel_bit_names == eqn_sys.sel_bits
    IN  IF get_signals(m, input_names).error # "none"
        THEN IoResult("get_equation_io", eqn_sys, "AssertionError", {}, {}, {}, {})
        ELSE IF get_signals(m, state_names).error # "none"
        THEN IoResult("get_equation_io", eqn_sys, "AssertionError", {}, {}, {}, {})
        ELSE IF get_signals(m, sel_bit_names).error # "none"
        THEN IoResult("get_equation_io", eqn_sys, "AssertionError", {}, {}, {}, {})
        ELSE IoResult("get_equation_io", eqn_sys, "none", input_names, state_names, output_names, sel_bit_names)

(* line 174 looks up self.get_eqn_io, which is no attribute of the model:  *)
(* __getattr__ turns the lookup into get_signal("get_eqn_io"), and a       *)
(* signal of that name is not callable.                                    *)
add_eqn_sys(m, eqn_sys) ==
    IF getattr(m, "get_eqn_io").error # "none"
    THEN IoResult("add_eqn_sys", eqn_sys, "AssertionError", {}, {}, {}, {})
    ELSE IoResult("add_eqn_sys", eqn_sys, "TypeError", {}, {}, {}, {})

Analysed(r) ==
    /\ pc = "idle"
    /\ io' = r
    /\ last' = [op |-> r.op, name |-> "", error |-> r.error]
    /\ UNCHANGED <<signals, namer, assignments, probes, pc, cur, gen_calls>>
    /\ UNCHANGED caseVars

GetEquationIo == \E eqn_sys \in EqnSystems : Analysed(get_equation_io(Model, eqn_sys))

AddEqnSys == \E eqn_sys \in EqnSystems : Analysed(add_eqn_sys(Model, eqn_sys))

(* ---------------- model.py: add_discrete_time_lds and make_history ---------------- *)
Array(mat, row, col) == [kind |-> "Array", mat |-> mat, row |-> row, col |-> col]

(* lines 222-223 and 228-229: the sum over the states plus the sum over the inputs *)
LdsExpr(mat1, mat2, row, states, inputs) ==
    Sum(<<sum_op([col \in 1..Len(states) |-> Product(<<Array(mat1, row, col), SignalRef(states[col])>>)]),
          sum_op([col \in 1..Len(inputs) |-> Product(<<Array(mat2, row, col), SignalRef(inputs[col])>>)])>>)

RECURSIVE state_updates(_, _, _, _)
state_updates(m, row, inputs, states) ==
    IF row > Len(states) THEN Done(m, "none")
    ELSE LET r == set_next_cycle(m, states[row], LdsExpr("A", "B", row, states, inputs)) IN
         IF r.error # "none" THEN r ELSE state_updates(r.m, row + 1, inputs, states)

(* output updates that merge the row's expression into an existing binding of the output *)
RECURSIVE output_updates_combining(_, _, _, _, _)
output_updates_combining(m, row, inputs, states, outputs) ==
    IF row > Len(outputs) THEN Done(m, "none")
    ELSE LET expr == LdsExpr("C", "D", row, states, inputs)
             bound == /\ has_assignment(m, outputs[row])
                      /\ get_assignment(m, outputs[row]).kind = "BindingAssignment"
             r == IF bound
                  THEN add_assignment_unchecked(m,
                           Assignment(outputs[row], "BindingAssignment",
                                      Sum(<<get_assignment(m, outputs[row]).expr, expr>>)))
                  ELSE IF has_signal(m, outputs[row])
                  THEN set_this_cycle(m, outputs[row], expr)
                  ELSE bind_name(m, outputs[row], expr)
         IN  IF r.error # "none" THEN r ELSE output_updates_combining(r.m, row + 1, inputs, states, outputs)

RECURSIVE output_updates(_, _, _, _, _)
output_updates(m, row, inputs, states, outputs) ==
    IF row > Len(outputs) THEN Done(m, "none")
    ELSE LET expr == LdsExpr("C", "D", row, states, inputs)
             r == IF has_signal(m, outputs[row])
                  THEN set_this_cycle(m, outputs[row], expr)
                  ELSE bind_name(m, outputs[row], expr)
         IN  IF r.error # "none" THEN r ELSE output_updates(r.m, row + 1, inputs, states, outputs)

add_discrete_time_lds(m, inputs, states, outputs) ==
    LET r == state_updates(m, 1, inputs, states) IN
    IF r.error # "none" THEN r ELSE output_updates(r.m, 1, inputs, states, outputs)

(* the name f'{first.name}_{k}' of line 266 *)
HistName(n, k) ==
    IF n = "x" THEN <<"x_1", "x_2", "x_3", "x_4">>[k]
    ELSE <<"name_1", "name_2", "name_3", "name_4">>[k]

(* make_history copying the first signal into every tap (hist[0] for hist[k - 1] at line 270) *)
RECURSIVE make_history_from_first_loop(_, _, _, _, _)
make_history_from_first_loop(m, first, length, k, hist) ==
    IF k >= length THEN [m |-> m, error |-> "none", hist |-> hist]
    ELSE IF k = 0 THEN make_history_from_first_loop(m, first, length, 1, Append(hist, first))
    ELSE LET curr == HistName(first, k)
             r1 == add_signal(m, Signal(curr, "Signal"))
             r2 == set_next_cycle(r1.m, curr, SignalRef(hist[1]))
         IN  IF r1.error # "none" THEN [m |-> r1.m, error |-> r1.error, hist |-> << >>]
             ELSE IF r2.error # "none" THEN [m |-> r2.m, error |-> r2.error, hist |-> << >>]
             ELSE make_history_from_first_loop(r2.m, first, length, k + 1, Append(hist, curr))

make_history_from_first(m, first, length) == make_history_from_first_loop(m, first, length, 0, << >>)

RECURSIVE make_history_loop(_, _, _, _, _)
make_history_loop(m, first, length, k, hist) ==
    IF k >= length THEN [m |-> m, error |-> "none", hist |-> hist]
    ELSE IF k = 0 THEN make_history_loop(m, first, length, 1, Append(hist, first))
    ELSE LET curr == HistName(first, k)
             r1 == add_signal(m, Signal(curr, "Signal"))
             r2 == set_next_cycle(r1.m, curr, SignalRef(hist[k]))
         IN  IF r1.error # "none" THEN [m |-> r1.m, error |-> r1.error, hist |-> << >>]
             ELSE IF r2.error # "none" THEN [m |-> r2.m, error |-> r2.error, hist |-> << >>]
             ELSE make_history_loop(r2.m, first, length, k + 1, Append(hist, curr))

make_history(m, first, length) == make_history_loop(m, first, length, 0, << >>)

WideBounds(m) ==
    Len(m.signals) <= MaxSignals + MaxHist /\ Len(m.assignments) <= MaxAssign + MaxHist

Stepped(op, n, r, given) ==
    /\ pc = "idle"
    /\ Len(signals) < MaxSignals /\ Len(assignments) < MaxAssign
    /\ WideBounds(r.m)
    /\ signals' = r.m.signals
    /\ namer' = r.m.namer
    /\ assignments' = r.m.assignments
    /\ last' = [op |-> op, name |-> n, error |-> r.error]
    /\ io' = given
    /\ UNCHANGED <<probes, pc, cur, gen_calls>>
    /\ UNCHANGED caseVars

BoundBefore(outputs) ==
    {outputs[i] : i \in {j \in 1..Len(outputs) :
        /\ has_assignment(Model, outputs[j])
        /\ get_assignment(Model, outputs[j]).kind = "BindingAssignment"}}

AddDiscreteTimeLds ==
    \E inputs \in {<<"x">>}, states \in SeqsUpTo({"x"}, MaxRows), outputs \in SeqsUpTo(Names, MaxRows) :
        LET r == add_discrete_time_lds(Model, inputs, states, outputs) IN
        Stepped("add_discrete_time_lds", "", r,
                [called |-> FALSE, op |-> "add_discrete_time_lds", error |-> r.error,
                 inputs |-> inputs, states |-> states, outputs |-> outputs,
                 bound_before |-> BoundBefore(outputs)])

MakeHistory ==
    \E first \in Names, length \in 0..MaxHist :
        LET r == make_history(Model, first, length) IN
        Stepped("make_history", first, r,
                [called |-> FALSE, op |-> "make_history", error |-> r.error,
                 first |-> first, length |-> length, hist |-> r.hist])

(* ---------------- model.py: compile_model ---------------- *)
SeqNames(d) == [i \in 1..Len(d) |-> d[i].name]

IsIo(signal) == signal.cls \in IoClasses

Ios(m) == SelectSeq(m.signals, IsIo)

(* the internals without the BindingAssignment test of line 288 *)
InternalsWithBindings(m) ==
    LET keep(signal) == ~IsIo(signal) /\ has_assignment(m, signal.name)
    IN  SelectSeq(m.signals, keep)

Internals(m) ==
    LET keep(signal) == /\ ~IsIo(signal)
                        /\ has_assignment(m, signal.name)
                        /\ get_assignment(m, signal.name).kind # "BindingAssignment"
    IN  SelectSeq(m.signals, keep)

(* the scan without the has_assignment test of lines 286-287 *)
UnassignedIgnored(m) == {i \in 1..Len(m.signals) : FALSE}

Unassigned(m) == {i \in 1..Len(m.signals) : ~IsIo(m.signals[i]) /\ ~has_assignment(m, m.signals[i].name)}

Call(op, args) == [op |-> op, args |-> args]

AfterAssign == IF Len(probes) > 0 THEN "make_probe" ELSE "end_module"
(* the loop over the assignments (lines 301-313) left out *)
AfterDeclareSkipping == AfterAssign

AfterDeclare == IF Len(assignments) > 0 THEN "assign_section" ELSE AfterAssign
AfterStart == IF Len(Internals(Model)) > 0 THEN "declare_section" ELSE AfterDeclare

Fail(e) ==
    /\ pc' = "failed"
    /\ last' = [op |-> "compile_model", name |-> "", error |-> e]
    /\ UNCHANGED cur

(* a call on the generator: it returns, or the backend raises *)
GenCall(at, call, e, nextpc, nextcur) ==
    /\ pc = at
    /\ gen_calls' = Append(gen_calls, call)
    /\ \/ pc' = nextpc /\ cur' = nextcur /\ UNCHANGED last
       \/ Fail(e)
    /\ UNCHANGED <<signals, namer, assignments, probes, io>>
    /\ UNCHANGED caseVars

(* lines 279-292: the scan of the catalog, the lookup of self.name (no     *)
(* attribute of the model, so a signal lookup), and start_module           *)
CompileModel ==
    /\ pc = "idle"
    /\ io' = NoIo
    /\ UNCHANGED <<signals, namer, assignments, probes>>
    /\ UNCHANGED caseVars
    /\ IF Unassigned(Model) # {}
       THEN Fail("Exception") /\ UNCHANGED gen_calls
       ELSE IF getattr(Model, "name").error # "none"
       THEN Fail("AssertionError") /\ UNCHANGED gen_calls
       ELSE /\ gen_calls' = Append(gen_calls, Call("start_module", SeqNames(Ios(Model))))
            /\ \/ pc' = AfterStart /\ cur' = 0
                  /\ last' = [op |-> "compile_model", name |-> "", error |-> "none"]
               \/ Fail("GeneratorError")

CompileDeclareSection ==
    GenCall("declare_section", Call("make_section", << >>), "GeneratorError", "make_signal", 0)

CompileMakeSignal ==
    /\ pc = "make_signal"
    /\ LET internals == Internals(Model) IN
       GenCall("make_signal", Call("make_signal", <<internals[cur + 1].name>>), "GeneratorError",
               IF cur + 1 < Len(internals) THEN "make_signal" ELSE AfterDeclare,
               IF cur + 1 < Len(internals) THEN cur + 1 ELSE 0)

CompileAssignSection ==
    /\ pc = "assign_section"
    /\ GenCall("assign_section", Call("make_section", <<assignments[cur + 1].name>>), "GeneratorError",
               "assign", cur)

GenOp(kind) ==
    IF kind = "ThisCycleAssignment" THEN "set_this_cycle"
    ELSE IF kind = "NextCycleAssignment" THEN "set_next_cycle"
    ELSE "bind_name"

CompileAssign ==
    /\ pc = "assign"
    /\ LET assignment == assignments[cur + 1] IN
       IF assignment.kind \in {"ThisCycleAssignment", "NextCycleAssignment", "BindingAssignment"}
       THEN GenCall("assign", Call(GenOp(assignment.kind), <<assignment.name>>), "GeneratorError",
                    IF cur + 1 < Len(assignments) THEN "assign_section" ELSE AfterAssign,
                    IF cur + 1 < Len(assignments) THEN cur + 1 ELSE 0)
       ELSE /\ Fail("Exception")
            /\ UNCHANGED <<signals, namer, assignments, probes, io, gen_calls>>
            /\ UNCHANGED caseVars

CompileMakeProbe ==
    /\ pc = "make_probe"
    /\ GenCall("make_probe", Call("make_probe", <<probes[cur + 1]>>), "GeneratorError",
               IF cur + 1 < Len(probes) THEN "make_probe" ELSE "end_module",
               IF cur + 1 < Len(probes) THEN cur + 1 ELSE 0)

CompileEndModule ==
    GenCall("end_module", Call("end_module", << >>), "GeneratorError", "write_to_file", 0)

(* line 323 calls write_to_file() with no filename: TypeError from         *)
(* CodeGenerator.write_to_file(self, filename), unless the backend         *)
(* overrides it                                                            *)
CompileWriteToFile ==
    GenCall("write_to_file", Call("write_to_file", << >>), "TypeError", "done", 0)

(* ---------------- inputs of the pure functions ---------------- *)
SelNames == {"a", "b"}
AddrSelNames == {"a", "b", "c"}
Settings == [SelNames -> {0, 1}]
Leaves == {Constant(1), SignalRef("x")}

Grow(P) ==
    P
    \cup {Sum(<<p, l>>) : p \in P, l \in Leaves}
    \cup {Sum(<<l, p>>) : p \in P, l \in Leaves}
    \cup {Product(<<p, l>>) : p \in P, l \in Leaves}
    \cup {EqualTo(l, p) : p \in P, l \in Leaves}
    \cup {Deriv(p) : p \in P}
    \cup {EqnCase(<<p, l>>, <<DigitalSignal(n)>>) : p \in P, l \in Leaves, n \in SelNames}
    \cup {EqnCase(<<l, p>>, <<DigitalSignal(n)>>) : p \in P, l \in Leaves, n \in SelNames}
    \cup {EqnCase(<<l, p, p, l>>, <<DigitalSignal("a"), DigitalSignal("b")>>) : p \in P, l \in Leaves}

RECURSIVE Exprs(_)
Exprs(d) == IF d = 0 THEN Leaves ELSE Grow(Exprs(d - 1))

SelCandidates ==
    {DigitalSignal("a"), DigitalSignal("b"),
     [name |-> "w", cls |-> "DigitalSignal", fmt |-> "UIntFormat", width |-> 2],
     [name |-> "n", cls |-> "DigitalSignal", fmt |-> "SIntFormat", width |-> 1],
     [name |-> "v", cls |-> "AnalogSignal", fmt |-> "RealFormat", width |-> 0]}

AddrInputs ==
    {[address |-> a, sel_bits |-> [i \in 1..Len(ns) |-> DigitalSignal(ns[i])]] :
        <<ns, a>> \in {<<ns, a>> \in SeqsUpTo(AddrSelNames, MaxSel) \X (0..Pow2(MaxSel)) :
                            a <= Pow2(Len(ns))}}

SubstInputs == {[expr |-> e, sel_bit_settings |-> s] : e \in Exprs(MaxDepth), s \in Settings}

EqnCaseInputs ==
    {[cases |-> [i \in 1..n |-> i], sel_bits |-> sb] : n \in 0..MaxCases, sb \in SeqsUpTo(SelCandidates, 2)}

(* ---------------- the calls ---------------- *)
ModelInit ==
    /\ signals = << >>
    /\ namer = {}
    /\ assignments = << >>
    /\ probes = << >>
    /\ last = NoCall
    /\ io = NoIo
    /\ pc = "idle"
    /\ cur = 0
    /\ gen_calls = << >>

CaseInit ==
    /\ ModelInit
    /\ ret = Pending
    /\ \/ fn = "address_to_settings" /\ arg \in AddrInputs
       \/ fn = "subst_case" /\ arg \in SubstInputs
       \/ fn = "eqn_case" /\ arg \in EqnCaseInputs

CallAddressToSettings ==
    /\ fn = "address_to_settings" /\ ret.error = "pending"
    /\ ret' = address_to_settings(arg.address, arg.sel_bits)
    /\ UNCHANGED <<fn, arg>>
    /\ UNCHANGED modelVars

CallGetAddress ==
    /\ fn = "address_to_settings" /\ ret.error = "none"
    /\ LET case == EqnCase([i \in 1..Pow2(Len(arg.sel_bits)) |-> Constant(i - 1)], arg.sel_bits) IN
       /\ fn' = "get_address"
       /\ arg' = [address |-> arg.address, case |-> case, sel_bit_settings |-> ret.value]
       /\ ret' = Ok(get_address(case, ret.value))
    /\ UNCHANGED modelVars

CallSubstCase ==
    /\ fn = "subst_case" /\ ret.error = "pending"
    /\ ret' = Ok(subst_case(arg.expr, arg.sel_bit_settings))
    /\ UNCHANGED <<fn, arg>>
    /\ UNCHANGED modelVars

CallEqnCase ==
    /\ fn = "eqn_case" /\ ret.error = "pending"
    /\ ret' = eqn_case(arg.cases, arg.sel_bits)
    /\ UNCHANGED <<fn, arg>>
    /\ UNCHANGED modelVars

CaseNext == CallAddressToSettings \/ CallGetAddress \/ CallSubstCase \/ CallEqnCase

CaseSpec == CaseInit /\ [][CaseNext]_vars

Init ==
    /\ ModelInit
    /\ fn = "none" /\ arg = << >> /\ ret = Pending

Next ==
    \/ AddSignal
    \/ SetThisCycle
    \/ SetNextCycle
    \/ BindName
    \/ AddAssignment
    \/ AddProbe
    \/ GetEquationIo
    \/ AddEqnSys
    \/ CompileModel
    \/ CompileDeclareSection
    \/ CompileMakeSignal
    \/ CompileAssignSection
    \/ CompileAssign
    \/ CompileMakeProbe
    \/ CompileEndModule
    \/ CompileWriteToFile

Spec == Init /\ [][Next]_vars

(* the model built by declarations, bindings, add_discrete_time_lds and make_history *)
LdsNext ==
    \/ AddSignal
    \/ BindName
    \/ AddDiscreteTimeLds
    \/ MakeHistory

LdsSpec == Init /\ [][LdsNext]_vars

(* ---------------- claims about cases.py ---------------- *)
SelBitNames(sel_bits) == [i \in 1..Len(sel_bits) |-> sel_bits[i].name]

(* C1: for a list of distinct one-bit selectors and an address in range,   *)
(* get_address on a Case declaring that list, given the settings that      *)
(* address_to_settings returned for the address, returns the address.      *)
C1_RoundTrip ==
    (fn = "get_address" /\ Distinct(SelBitNames(arg.case.sel_bits)))
        => (ret.error = "none" /\ ret.value = arg.address)

C1_Witness ==
    /\ fn = "get_address"
    /\ Len(arg.case.sel_bits) = 3
    /\ Distinct(SelBitNames(arg.case.sel_bits))
    /\ arg.address = 6
    /\ ret.value = 6

(* An expression with no Case node under its Sum/Product/EqualTo structure *)
RECURSIVE CaseFree(_)
CaseFree(e) ==
    IF e.kind = "EqnCase" THEN FALSE
    ELSE IF e.kind = "EqualTo" THEN CaseFree(e.lhs) /\ CaseFree(e.rhs)
    ELSE IF e.kind \in {"Sum", "Product"} THEN \A i \in 1..Len(e.operands) : CaseFree(e.operands[i])
    ELSE TRUE

(* C2: subst_case is idempotent: substituting the result of subst_case     *)
(* again with the same settings returns it unchanged, and an expression    *)
(* with no Case node under its Sum/Product/EqualTo structure is returned   *)
(* structurally equal.                                                     *)
C2_SubstIdempotent ==
    (fn = "subst_case" /\ ret.error = "none")
        => /\ subst_case(ret.value, arg.sel_bit_settings) = ret.value
           /\ CaseFree(arg.expr) => ret.value = arg.expr

C2_Witness ==
    /\ fn = "subst_case" /\ ret.error = "none"
    /\ arg.expr.kind = "EqnCase"
    /\ get_case(arg.expr, arg.sel_bit_settings).kind = "EqnCase"
    /\ CaseFree(ret.value)

OneBitUnsignedDigital(s) == s.cls = "DigitalSignal" /\ s.fmt = "UIntFormat" /\ s.width = 1

Malformed(cases, sel_bits) ==
    \/ Len(cases) # Pow2(Len(sel_bits))
    \/ \E i \in 1..Len(sel_bits) : ~OneBitUnsignedDigital(sel_bits[i])
    \/ Len(cases) = 0

(* C3: eqn_case fails on a malformed case table (length other than 2^k,    *)
(* a selector that is not a one-bit unsigned digital signal, or no case)   *)
(* and returns no value then.                                              *)
C3_EqnCaseRejects ==
    (fn = "eqn_case" /\ ret.error # "pending" /\ Malformed(arg.cases, arg.sel_bits))
        => ret.error \in {"AssertionError", "ValueError"}

C3_Witness ==
    /\ fn = "eqn_case"
    /\ Len(arg.cases) = 3 /\ Len(arg.sel_bits) = 1 /\ OneBitUnsignedDigital(arg.sel_bits[1])
    /\ ret.error = "AssertionError"

(* the address of a Case under settings, from its own selectors, first one most significant *)
LocalAddress(case, s) ==
    LET n == Len(case.sel_bits) IN
    CHOOSE a \in 0..(Pow2(n) - 1) :
        \A i \in 1..n : (a \div Pow2(n - i)) % 2 = s[case.sel_bits[i].name]

(* the selectors declared by the Case nodes that resolving e under s goes through *)
RECURSIVE PathSelectors(_, _)
PathSelectors(e, s) ==
    IF e.kind = "EqnCase"
    THEN {e.sel_bits[i].name : i \in 1..Len(e.sel_bits)}
            \cup PathSelectors(e.cases[LocalAddress(e, s) + 1], s)
    ELSE IF e.kind = "EqualTo" THEN PathSelectors(e.lhs, s) \cup PathSelectors(e.rhs, s)
    ELSE IF e.kind \in {"Sum", "Product"}
    THEN UNION {PathSelectors(e.operands[i], s) : i \in 1..Len(e.operands)}
    ELSE {}

(* C11: subst_case resolves a Case to the substitution of the branch at    *)
(* its local address, and settings that agree on the selectors declared    *)
(* along the resolved path give the same result.                           *)
C11_LocalAddress ==
    (fn = "subst_case" /\ ret.error = "none")
        => /\ arg.expr.kind = "EqnCase" =>
                ret.value = subst_case(arg.expr.cases[LocalAddress(arg.expr, arg.sel_bit_settings) + 1],
                                       arg.sel_bit_settings)
           /\ \A s2 \in Settings :
                (\A n \in PathSelectors(arg.expr, arg.sel_bit_settings) : s2[n] = arg.sel_bit_settings[n])
                    => subst_case(arg.expr, s2) = ret.value

C11_Witness ==
    /\ fn = "subst_case" /\ ret.error = "none"
    /\ arg.expr.kind = "EqnCase" /\ Len(arg.expr.sel_bits) = 2
    /\ arg.sel_bit_settings["a"] = 1 /\ arg.sel_bit_settings["b"] = 0
    /\ arg.expr.cases[3].kind = "EqnCase"
    /\ PathSelectors(arg.expr, arg.sel_bit_settings) = {"a", "b"}
    /\ CaseFree(ret.value)

(* C12: address_to_settings gives the selector at list position i (from 0) *)
(* of n distinct selectors bit n-1-i of the address; the mapping has one   *)
(* entry per selector name, each 0 or 1.                                   *)
C12_MsbFirst ==
    (fn = "address_to_settings" /\ ret.error = "none")
        => LET n == Len(arg.sel_bits) IN
           /\ DOMAIN ret.value = {arg.sel_bits[i].name : i \in 1..n}
           /\ \A nm \in DOMAIN ret.value : ret.value[nm] \in {0, 1}
           /\ Distinct(SelBitNames(arg.sel_bits)) =>
                \A i \in 1..n : ret.value[arg.sel_bits[i].name] = (arg.address \div Pow2(n - i)) % 2

C12_Witness ==
    /\ fn = "address_to_settings" /\ ret.error = "none"
    /\ arg.sel_bits = <<DigitalSignal("a"), DigitalSignal("b"), DigitalSignal("c")>>
    /\ arg.address = 4
    /\ ret.value["a"] = 1 /\ ret.value["b"] = 0 /\ ret.value["c"] = 0

(* ---------------- claims about model.py ---------------- *)
AssignedNames == {assignments[j].name : j \in 1..Len(assignments)}
DeclaredNames == {signals[i].name : i \in 1..Len(signals)}
Referenced(eqn_sys) == eqn_sys.all_signals \ eqn_sys.derivs

(* C4 (as claimed): add_eqn_sys on a system that the analysis accepts      *)
(* builds a collection of exactly 2^k systems for its k selector bits.     *)
C4_CollectionBuilt ==
    (io.called /\ io.op = "add_eqn_sys" /\ get_equation_io(Model, io.eqn_sys).error = "none")
        => (io.error = "none" /\ Len(io.collection) = Pow2(Cardinality(io.eqn_sys.sel_bits)))

(* C5: every name has at most one assignment; set_this_cycle or            *)
(* set_next_cycle on a name that has an assignment, and bind_name on a     *)
(* name that is declared or assigned, fail and leave the assignments as    *)
(* they were.                                                              *)
C5_SingleAssignment ==
    [][/\ Distinct(SeqNames(assignments'))
       /\ (last'.op \in {"set_this_cycle", "set_next_cycle"} /\ last'.name \in AssignedNames)
            => (last'.error # "none" /\ assignments' = assignments)
       /\ (last'.op = "bind_name" /\ last'.name \in DeclaredNames \cup AssignedNames)
            => (last'.error # "none" /\ assignments' = assignments)]_vars

C5_Witness ==
    /\ last.op = "bind_name" /\ last.error # "none"
    /\ \E j \in 1..Len(assignments) :
          assignments[j].name = last.name /\ assignments[j].kind = "BindingAssignment"

NonIoWithoutAssignment ==
    \E i \in 1..Len(signals) :
        /\ signals[i].cls \notin {"AnalogInput", "AnalogOutput", "DigitalInput", "DigitalOutput"}
        /\ \A j \in 1..Len(assignments) : assignments[j].name # signals[i].name

(* C6: compile_model fails when a non-IO signal of the catalog has no      *)
(* assignment, and has then invoked no generator operation; when a         *)
(* generator operation has been invoked, every non-IO signal has exactly   *)
(* one assignment.                                                         *)
C6_UnassignedFails ==
    /\ (last.op = "compile_model" /\ NonIoWithoutAssignment)
          => (pc = "failed" /\ last.error # "none" /\ gen_calls = << >>)
    /\ gen_calls # << >> =>
          \A i \in 1..Len(signals) :
              signals[i].cls \notin {"AnalogInput", "AnalogOutput", "DigitalInput", "DigitalOutput"}
                  => Cardinality({j \in 1..Len(assignments) : assignments[j].name = signals[i].name}) = 1

C6_Witness ==
    /\ pc = "failed" /\ last.op = "compile_model" /\ last.error = "Exception"
    /\ NonIoWithoutAssignment
    /\ "name" \in DeclaredNames
    /\ gen_calls = << >>

IsPrefix(s, t) == Len(s) <= Len(t) /\ \A i \in 1..Len(s) : s[i] = t[i]

ExpectedIos ==
    LET io_signal(sg) == sg.cls \in {"AnalogInput", "AnalogOutput", "DigitalInput", "DigitalOutput"}
    IN  SelectSeq(signals, io_signal)

ExpectedInternals ==
    LET internal(sg) ==
            /\ sg.cls \notin {"AnalogInput", "AnalogOutput", "DigitalInput", "DigitalOutput"}
            /\ \A j \in 1..Len(assignments) :
                  assignments[j].name = sg.name => assignments[j].kind # "BindingAssignment"
    IN  SelectSeq(signals, internal)

ExpectedEmit(a) ==
    IF a.kind = "ThisCycleAssignment" THEN [op |-> "set_this_cycle", args |-> <<a.name>>]
    ELSE IF a.kind = "NextCycleAssignment" THEN [op |-> "set_next_cycle", args |-> <<a.name>>]
    ELSE IF a.kind = "BindingAssignment" THEN [op |-> "bind_name", args |-> <<a.name>>]
    ELSE [op |-> "none", args |-> <<a.name>>]

(* the generator calls of a whole compilation, section markers left out *)
ExpectedCalls ==
    <<[op |-> "start_module", args |-> [i \in 1..Len(ExpectedIos) |-> ExpectedIos[i].name]]>>
    \o [i \in 1..Len(ExpectedInternals) |-> [op |-> "make_signal", args |-> <<ExpectedInternals[i].name>>]]
    \o [j \in 1..Len(assignments) |-> ExpectedEmit(assignments[j])]
    \o [k \in 1..Len(probes) |-> [op |-> "make_probe", args |-> <<probes[k]>>]]
    \o <<[op |-> "end_module", args |-> << >>], [op |-> "write_to_file", args |-> << >>]>>

NotSection(c) == c.op # "make_section"

(* C7: the generator is invoked in the order start_module, one make_signal *)
(* per internal signal, one emission per assignment in the order of the    *)
(* assignments, one make_probe per probe, end_module, write_to_file: the   *)
(* calls made so far are always a prefix of that sequence, and the whole   *)
(* of it when compile_model has returned.                                  *)
C7_GeneratorOrder ==
    /\ IsPrefix(SelectSeq(gen_calls, NotSection), ExpectedCalls)
    /\ pc = "done" => SelectSeq(gen_calls, NotSection) = ExpectedCalls

C7_Witness ==
    /\ pc = "done"
    /\ Len(assignments) = 2
    /\ Len(probes) = 1
    /\ Len(ExpectedInternals) = 1
    /\ \E j \in 1..Len(assignments) : assignments[j].kind = "BindingAssignment"

(* C8: write_to_file is invoked only as the last call, after every         *)
(* assignment of the model has been emitted; a compilation in which an     *)
(* earlier step failed, an assignment of an unrecognized kind included,    *)
(* never invokes it.                                                       *)
C8_PersistLast ==
    \A i \in 1..Len(gen_calls) :
        gen_calls[i].op = "write_to_file" =>
            /\ i = Len(gen_calls)
            /\ \A j \in 1..Len(assignments) :
                  /\ assignments[j].kind \in {"ThisCycleAssignment", "NextCycleAssignment", "BindingAssignment"}
                  /\ \E k \in 1..(i - 1) : gen_calls[k] = ExpectedEmit(assignments[j])

C8_Witness ==
    /\ pc = "failed" /\ last.error = "Exception"
    /\ gen_calls # << >>
    /\ \E j \in 1..Len(assignments) : assignments[j].kind = "Assignment"

DeclaredAs(classes) == {signals[i].name : i \in {j \in 1..Len(signals) : signals[j].cls \in classes}}
AssignedAs(kinds) == {assignments[i].name : i \in {j \in 1..Len(assignments) : assignments[j].kind \in kinds}}

(* C10 (as claimed): the inputs are the declared analog and digital inputs *)
(* and the signals with a Binding assignment, among the referenced ones.   *)
C10_InputsWithDigital ==
    (io.called /\ io.op = "get_equation_io" /\ io.error = "none")
        => io.inputs = (DeclaredAs({"AnalogInput", "DigitalInput"}) \cup AssignedAs({"BindingAssignment"}))
                            \cap io.eqn_sys.all_signals

(* C10 (amended): the inputs are the declared analog inputs and the        *)
(* signals with an assignment of any kind, among the referenced ones.      *)
C10_InputsAnalogOrAssigned ==
    (io.called /\ io.op = "get_equation_io" /\ io.error = "none")
        => io.inputs = (DeclaredAs({"AnalogInput"}) \cup AssignedNames) \cap io.eqn_sys.all_signals

C10_Witness ==
    /\ io.called /\ io.op = "get_equation_io" /\ io.error = "none"
    /\ "x" \in DeclaredAs({"DigitalInput"})
    /\ "x" \notin io.inputs
    /\ "x" \in io.outputs

(* C13 (as claimed): add_eqn_sys on a system with selector bits that the   *)
(* analysis accepts completes and indexes the coefficient arrays by the    *)
(* concatenation of exactly the system's selector bits.                    *)
C13_SelectorConcat ==
    (/\ io.called /\ io.op = "add_eqn_sys"
     /\ io.eqn_sys.sel_bits # {}
     /\ get_equation_io(Model, io.eqn_sys).error = "none")
        => (io.error = "none" /\ io.sel_bits = io.eqn_sys.sel_bits)

AssignmentsOf(asg, n) == SelectSeq(asg, LAMBDA a : a.name = n)

(* C14 (as claimed): add_discrete_time_lds with an output that has a       *)
(* Binding assignment does not fail, and the output ends with one          *)
(* assignment whose expression is the binding plus the row's C/D term.     *)
C14_Combined ==
    [][(io'.op = "add_discrete_time_lds" /\ io'.bound_before # {})
         => /\ io'.error = "none"
            /\ \A row \in 1..Len(io'.outputs) :
                  io'.outputs[row] \in io'.bound_before =>
                      /\ Len(AssignmentsOf(assignments', io'.outputs[row])) = 1
                      /\ AssignmentsOf(assignments', io'.outputs[row])[1].expr
                            = Sum(<<AssignmentsOf(assignments, io'.outputs[row])[1].expr,
                                    LdsExpr("C", "D", row, io'.states, io'.inputs)>>)]_vars

(* C14 (amended): add_discrete_time_lds with an output that has a Binding  *)
(* assignment fails with AssertionError; every such output keeps its one   *)
(* assignment as it was, and the signals and assignments of the model are  *)
(* only extended by what the rows before the failing one added.            *)
C14_BoundOutputRejected ==
    [][(io'.op = "add_discrete_time_lds" /\ io'.bound_before # {})
         => /\ io'.error = "AssertionError"
            /\ \A o \in io'.bound_before :
                  /\ Len(AssignmentsOf(assignments', o)) = 1
                  /\ AssignmentsOf(assignments', o) = AssignmentsOf(assignments, o)
            /\ IsPrefix(assignments, assignments')
            /\ IsPrefix(signals, signals')]_vars

C14_Witness ==
    /\ io.op = "add_discrete_time_lds" /\ io.error = "AssertionError"
    /\ io.outputs = <<"name">> /\ io.bound_before = {"name"}
    /\ io.states = <<"x">>
    /\ AssignmentsOf(assignments, "name") = <<Assignment("name", "BindingAssignment", SignalRef("x"))>>
    /\ Len(AssignmentsOf(assignments, "x")) = 1

(* C15: a make_history(first, length) that returns gives length taps, the  *)
(* first of them the given signal; it appends one new signal per tap k>=1  *)
(* and one next-cycle assignment for it whose expression is tap k-1, and   *)
(* changes no other signal, assignment or probe.                           *)
C15_DelayChain ==
    [][(io'.op = "make_history" /\ io'.error = "none")
         => LET hist == io'.hist
                added == IF io'.length >= 1 THEN io'.length - 1 ELSE 0
            IN  /\ Len(hist) = io'.length
                /\ io'.length >= 1 => hist[1] = io'.first
                /\ signals' = signals \o [k \in 1..added |-> Signal(hist[k + 1], "Signal")]
                /\ assignments' = assignments \o
                      [k \in 1..added |-> Assignment(hist[k + 1], "NextCycleAssignment", SignalRef(hist[k]))]
                /\ Distinct(hist)
                /\ \A k \in 1..added : hist[k + 1] \notin Keys(signals) \cup Keys(assignments)
                /\ probes' = probes]_vars

C15_Witness ==
    /\ io.op = "make_history" /\ io.error = "none"
    /\ io.first = "x" /\ io.length = 3
    /\ io.hist = <<"x", "x_1", "x_2">>
    /\ Len(signals) > 2
    /\ assignments[Len(assignments)] = Assignment("x_2", "NextCycleAssignment", SignalRef("x_1"))

====
